---- MODULE Spec2Model ----
(***************************************************************************)
(* A model of tools/i2cget.c: one invocation of i2cget after its option    *)
(* flags have been decoded, from the parsing of the positional DATA-ADDRESS *)
(* and MODE arguments to process exit.  Every bus operation issued on the   *)
(* device file is recorded in `bus`, every diagnostic in `stderr`, the      *)
(* printed result in `stdout`.                                              *)
(***************************************************************************)
EXTENDS Integers, Sequences, FiniteSets, TLC

\* Largest raw length (-l) explored.
MaxLength == 3

\* Values of -l after the flag loop: 0 is "not given" (a given zero is
\* rejected at line 200); a negative value passes that test.
Lengths == {-1} \cup (0 .. MaxLength)

\* CHIP-ADDRESS values, around the 0x50..0x57 block.
ChipAddrs == {79, 80, 87, 88}

\* DATA-ADDRESS values returned by strtol: invalid (negative), zero, one
\* byte, two bytes, three bytes, four bytes.
DataAddrs == {-1, 0, 16, 4660, 65536, 16777216}

\* First character of MODE; "x" stands for any unsupported character.
ModeChars == {"b", "w", "c", "x"}

\* Adapter functionality bits tested by check_funcs.
FuncBits == {"READ_BYTE", "WRITE_BYTE", "READ_BYTE_DATA", "READ_WORD_DATA",
             "PEC", "I2C"}

\* What the operator types at the prompt: yes, no, nothing, something else.
Responses == {"y", "n", "", "other"}

\* Seeds of the byte streams a device returns.
DevSeeds == {1, 200}

\* Values the structured read primitives return (negative: error).
ByteResults == {-1, 0, 42, 255}
WordResults == {-5, 0, 4660, 65535}

MAX_ADDR_LEN == 2

VARIABLES
    args,       \* decoded command line (never changes)
    pc,         \* position in main
    size,       \* I2C_SMBUS_BYTE / _BYTE_DATA / _WORD_DATA
    daddress,   \* data address, -1 when absent
    daddrlen,   \* inferred byte width of daddress
    pec,        \* PEC requested
    file,       \* "unopened", "open", "closed"
    funcs,      \* functionality matrix returned by I2C_FUNCS
    bus,        \* operations issued on the device file, in order
    res,        \* return value of the read
    resbuf,     \* raw read buffer
    stdout,     \* text printed on standard output
    stderr,     \* diagnostics, in order
    prompt,     \* the default shown by "Continue? [..]", "" if none shown
    answer,     \* what the operator typed at the prompt, "none" if not asked
    exitAt,     \* the step at which the process ended, "" while running
    exitCode    \* process exit status, -1 while running

vars == <<args, pc, size, daddress, daddrlen, pec, file, funcs, bus, res,
          resbuf, stdout, stderr, prompt, answer, exitAt, exitCode>>

----------------------------------------------------------------------------
\* Helpers

Pow(b, e) == IF e = 0 THEN 1 ELSE IF e = 1 THEN b ELSE IF e = 2 THEN b * b
             ELSE IF e = 3 THEN b * b * b ELSE b * b * b * b

\* adr >> (8 * n) for a non-negative int and 8 * n < 32
Shr8(adr, n) == adr \div Pow(256, n)

Op(name, n, bytes, ret) == [op |-> name, n |-> n, bytes |-> bytes, ret |-> ret]

ReadOps == {"read", "read_byte", "read_byte_data", "read_word_data"}

HexDigitsUpper == <<"0", "1", "2", "3", "4", "5", "6", "7",
                    "8", "9", "A", "B", "C", "D", "E", "F">>
HexDigitsLower == <<"0", "1", "2", "3", "4", "5", "6", "7",
                    "8", "9", "a", "b", "c", "d", "e", "f">>

\* printf("%0<w>X") / ("%0<w>x") of a non-negative value
RECURSIVE HexFmt(_, _, _)
HexFmt(v, w, digits) ==
    IF v < 16 /\ w <= 1 THEN digits[v + 1]
    ELSE HexFmt(v \div 16, w - 1, digits) \o digits[(v % 16) + 1]

----------------------------------------------------------------------------
\* check_funcs (lines 55-101), given the matrix a successful I2C_FUNCS
\* query returned: its return value and the diagnostics it prints.

check_funcs_PecFatal(size_, daddress_, pec_, fs) ==
    IF size_ = "I2C_SMBUS_BYTE" /\ "READ_BYTE" \notin fs
      THEN [ret |-> -1, err |-> <<"Error: Adapter does not have SMBus receive byte capability">>]
    ELSE IF size_ = "I2C_SMBUS_BYTE" /\ daddress_ >= 0 /\ "WRITE_BYTE" \notin fs
      THEN [ret |-> -1, err |-> <<"Error: Adapter does not have SMBus send byte capability">>]
    ELSE IF size_ = "I2C_SMBUS_BYTE_DATA" /\ "READ_BYTE_DATA" \notin fs
      THEN [ret |-> -1, err |-> <<"Error: Adapter does not have SMBus read byte capability">>]
    ELSE IF size_ = "I2C_SMBUS_WORD_DATA" /\ "READ_WORD_DATA" \notin fs
      THEN [ret |-> -1, err |-> <<"Error: Adapter does not have SMBus read word capability">>]
    ELSE IF pec_ /\ fs \cap {"PEC", "I2C"} = {}
      THEN [ret |-> -1, err |-> <<"Warning: Adapter does not seem to support PEC">>]
    ELSE [ret |-> 0, err |-> <<>>]

check_funcs(size_, daddress_, pec_, fs) ==
    IF size_ = "I2C_SMBUS_BYTE" /\ "READ_BYTE" \notin fs
      THEN [ret |-> -1, err |-> <<"Error: Adapter does not have SMBus receive byte capability">>]
    ELSE IF size_ = "I2C_SMBUS_BYTE" /\ daddress_ >= 0 /\ "WRITE_BYTE" \notin fs
      THEN [ret |-> -1, err |-> <<"Error: Adapter does not have SMBus send byte capability">>]
    ELSE IF size_ = "I2C_SMBUS_BYTE_DATA" /\ "READ_BYTE_DATA" \notin fs
      THEN [ret |-> -1, err |-> <<"Error: Adapter does not have SMBus read byte capability">>]
    ELSE IF size_ = "I2C_SMBUS_WORD_DATA" /\ "READ_WORD_DATA" \notin fs
      THEN [ret |-> -1, err |-> <<"Error: Adapter does not have SMBus read word capability">>]
    ELSE IF pec_ /\ fs \cap {"PEC", "I2C"} = {}
      THEN [ret |-> 0, err |-> <<"Warning: Adapter does not seem to support PEC">>]
    ELSE [ret |-> 0, err |-> <<>>]

----------------------------------------------------------------------------
\* user_ack(def): the answer read from the operator, def when the answer is
\* neither yes nor no.

user_ack(def, resp) ==
    IF resp = "y" THEN TRUE
    ELSE IF resp = "n" THEN FALSE
    ELSE def

\* confirm (lines 103-151): its return value, the diagnostics it prints and
\* the default it offers ("" when it returns before asking).

WarnBanner == "WARNING! This program can confuse your I2C bus, cause data loss and worse!"
StopEeprom == "STOP! EEPROMs are I2C devices, not SMBus devices."
WarnWriteByte == "WARNING! All I2C chips and some SMBus chips will interpret a write byte command with PEC as a write byte data command"

ConfirmText(size_, daddress_) ==
    "I will read from device file, " \o
    (IF daddress_ < 0 THEN "current data address" ELSE "data address") \o
    ", using " \o
    (IF size_ = "I2C_SMBUS_BYTE"
       THEN (IF daddress_ < 0 THEN "read byte" ELSE "write byte/read byte")
       ELSE IF size_ = "I2C_SMBUS_BYTE_DATA" THEN "read byte data"
       ELSE "read word data")

confirm_NoEepromStop(address_, size_, daddress_, pec_, resp) ==
    LET dont == size_ = "I2C_SMBUS_BYTE" /\ daddress_ >= 0 /\ pec_
        ack  == user_ack(~dont, resp)
    IN  [ret |-> ack,
         prompt |-> IF dont THEN "y/N" ELSE "Y/n",
         err |-> <<WarnBanner>>
                 \o (IF dont THEN <<WarnWriteByte>> ELSE <<>>)
                 \o <<ConfirmText(size_, daddress_)>>
                 \o (IF pec_ THEN <<"PEC checking enabled.">> ELSE <<>>)
                 \o <<"Continue?">>
                 \o (IF ack THEN <<>> ELSE <<"Aborting on user request.">>)]

confirm(address_, size_, daddress_, pec_, resp) ==
    IF address_ >= 80 /\ address_ <= 87 /\ pec_
    THEN [ret |-> FALSE, prompt |-> "", err |-> <<WarnBanner, StopEeprom>>]
    ELSE
    LET dont == size_ = "I2C_SMBUS_BYTE" /\ daddress_ >= 0 /\ pec_
        ack  == user_ack(~dont, resp)
    IN  [ret |-> ack,
         prompt |-> IF dont THEN "y/N" ELSE "Y/n",
         err |-> <<WarnBanner>>
                 \o (IF dont THEN <<WarnWriteByte>> ELSE <<>>)
                 \o <<ConfirmText(size_, daddress_)>>
                 \o (IF pec_ THEN <<"PEC checking enabled.">> ELSE <<>>)
                 \o <<"Continue?">>
                 \o (IF ack THEN <<>> ELSE <<"Aborting on user request.">>)]

----------------------------------------------------------------------------
\* writeaddr (lines 153-170): the buffer handed to write().

AddrBytes_LittleEndian(adr, len) ==
    LET l == IF len > MAX_ADDR_LEN THEN MAX_ADDR_LEN ELSE len
    IN  [i \in 1 .. l |-> Shr8(adr, i - 1) % 256]

AddrBytes(adr, len) ==
    LET l == IF len > MAX_ADDR_LEN THEN MAX_ADDR_LEN ELSE len
    IN  [i \in 1 .. l |-> Shr8(adr, l - i) % 256]

\* The loop of lines 234-235, started with daddrlen = n.  It stops at 4
\* without evaluating daddress >> 32, which C leaves undefined.
RECURSIVE DAddrLenFrom(_, _)
DAddrLenFrom(adr, n) ==
    IF n >= 4 THEN n
    ELSE IF Shr8(adr, n) # 0 THEN DAddrLenFrom(adr, n + 1)
    ELSE n

----------------------------------------------------------------------------
\* The read primitive main issues (lines 274-296).

Primitive_ModeFirst(length_, size_) ==
    IF size_ = "I2C_SMBUS_WORD_DATA" THEN "read_word_data"
    ELSE IF length_ # 0 THEN "read"
    ELSE IF size_ = "I2C_SMBUS_BYTE" THEN "read_byte"
    ELSE "read_byte_data"

Primitive(length_, size_) ==
    IF length_ # 0 THEN "read"
    ELSE IF size_ = "I2C_SMBUS_BYTE" THEN "read_byte"
    ELSE IF size_ = "I2C_SMBUS_WORD_DATA" THEN "read_word_data"
    ELSE "read_byte_data"

\* Whether main calls writeaddr before the read (lines 281, 287).
CallsWriteaddr(length_, size_) ==
    length_ # 0 \/ size_ = "I2C_SMBUS_BYTE"

\* Byte i (from 1) of the stream a device returns.
DevByte(seed, i) == (seed + 127 * (i - 1)) % 256

----------------------------------------------------------------------------
\* Result printing (lines 300-333).

\* printf("%02X", resbufptr[i]): a plain char is promoted to int, and a
\* negative int is printed as its 32-bit two's complement, 0xFFFFFF00 + b.
CharText(b, signedChar) ==
    IF signedChar /\ b >= 128
    THEN "FFFFFF" \o HexFmt(b, 2, HexDigitsUpper)
    ELSE HexFmt(b, 2, HexDigitsUpper)

RECURSIVE RawPacked(_, _, _)
RawPacked(buf, n, signedChar) ==
    IF n = 0 THEN ""
    ELSE RawPacked(buf, n - 1, signedChar) \o CharText(buf[n], signedChar)

RECURSIVE RawSeparate(_, _, _)
RawSeparate(buf, n, signedChar) ==
    IF n = 0 THEN ""
    ELSE RawSeparate(buf, n - 1, signedChar)
         \o (IF n > 1 THEN " " ELSE "")
         \o "0x" \o CharText(buf[n], signedChar)

RawText(buf, length_, signedChar) ==
    IF length_ \in {1, 2, 4, 8}
    THEN "0x" \o RawPacked(buf, length_, signedChar) \o "\n"
    ELSE RawSeparate(buf, length_, signedChar) \o "\n"

ValueText(size_, res_) ==
    "0x" \o HexFmt(res_, IF size_ = "I2C_SMBUS_WORD_DATA" THEN 4 ELSE 2,
                   HexDigitsLower) \o "\n"

\* The test of line 301 / line 325.
ReadFailed_ShortOk(length_, res_) ==
    IF length_ # 0 THEN res_ <= 0 ELSE res_ < 0

ReadFailed(length_, res_) ==
    IF length_ # 0 THEN length_ # res_ ELSE res_ < 0

----------------------------------------------------------------------------
\* The command lines explored: nargs counts the optional positional
\* arguments (DATA-ADDRESS, MODE) that follow CHIP-ADDRESS.

ArgSets ==
    { [yes |-> y, length |-> l, address |-> a, nargs |-> 0,
       daddr |-> -1, mode |-> "", modePec |-> FALSE] :
         y \in BOOLEAN, l \in Lengths, a \in ChipAddrs }
    \cup
    { [yes |-> y[1], length |-> l, address |-> a, nargs |-> 1,
       daddr |-> d, mode |-> "", modePec |-> FALSE] :
         y \in {<<TRUE>>, <<FALSE>>}, l \in Lengths, a \in ChipAddrs,
         d \in DataAddrs }
    \cup
    { [yes |-> y, length |-> l, address |-> a, nargs |-> 2,
       daddr |-> dm[1], mode |-> dm[2], modePec |-> dm[3]] :
         y \in BOOLEAN, l \in Lengths, a \in ChipAddrs,
         dm \in DataAddrs \X ModeChars \X BOOLEAN }

Init ==
    /\ args \in ArgSets
    /\ pc = "args"
    /\ size = "unset"
    /\ daddress = -1
    /\ daddrlen = 0
    /\ pec = FALSE
    /\ file = "unopened"
    /\ funcs = {}
    /\ bus = <<>>
    /\ res = 0
    /\ resbuf = <<>>
    /\ stdout = ""
    /\ stderr = <<>>
    /\ prompt = ""
    /\ answer = "none"
    /\ exitAt = ""
    /\ exitCode = -1

\* exit(code) / return code from main
Exit(at, code) ==
    /\ pc' = "exit"
    /\ exitAt' = at
    /\ exitCode' = code

Running == UNCHANGED <<exitAt, exitCode>>

\* Lines 230-256: DATA-ADDRESS and MODE.
ParseArgs ==
    /\ pc = "args"
    /\ LET hasD == args.nargs >= 1
           d    == IF hasD THEN args.daddr ELSE -1
           badD == hasD /\ d < 0
           n    == IF hasD /\ d >= 0 THEN DAddrLenFrom(d, 0) ELSE 0
           hasM == args.nargs >= 2
           badM == hasM /\ args.mode \notin {"b", "w", "c"}
           sz0  == IF hasD THEN "I2C_SMBUS_BYTE_DATA" ELSE "I2C_SMBUS_BYTE"
           sz   == IF ~hasM \/ badM THEN sz0
                   ELSE IF args.mode = "b" THEN "I2C_SMBUS_BYTE_DATA"
                   ELSE IF args.mode = "w" THEN "I2C_SMBUS_WORD_DATA"
                   ELSE "I2C_SMBUS_BYTE"
       IN  /\ daddress' = d
           /\ \/ /\ badD
                 /\ size' = sz0
                 /\ UNCHANGED <<daddrlen, pec>>
                 /\ stderr' = stderr \o <<"Error: Data address invalid!", "Usage">>
                 /\ Exit("args", 1)
              \/ \* daddress >> 32 is undefined: the loop may never end
                 /\ ~badD /\ n >= 4
                 /\ size' = sz0
                 /\ UNCHANGED <<daddrlen, pec, stderr>>
                 /\ pc' = "hung"
                 /\ Running
              \/ \* ... or the shift may yield 0 and end it with daddrlen = 4
                 /\ ~badD
                 /\ daddrlen' = n
                 /\ size' = sz
                 /\ IF badM
                    THEN /\ stderr' = stderr \o <<"Error: Invalid mode!", "Usage">>
                         /\ UNCHANGED pec
                         /\ Exit("args", 1)
                    ELSE /\ pec' = (hasM /\ args.modePec)
                         /\ UNCHANGED stderr
                         /\ pc' = "open"
                         /\ Running
    /\ UNCHANGED <<args, file, funcs, bus, res, resbuf, stdout, prompt, answer>>

\* Line 258-259: open_i2c_dev.
OpenDev ==
    /\ pc = "open"
    /\ \/ /\ file' = "open"
          /\ pc' = "check_funcs"
          /\ UNCHANGED stderr
          /\ Running
       \/ /\ UNCHANGED file
          /\ stderr' = Append(stderr, "Error: Could not open file")
          /\ Exit("open", 1)
    /\ UNCHANGED <<args, size, daddress, daddrlen, pec, funcs, bus, res,
                   resbuf, stdout, prompt, answer>>

\* Line 260, lines 55-101: check_funcs, the I2C_FUNCS query included.
CheckFuncs ==
    /\ pc = "check_funcs"
    /\ \/ /\ bus' = Append(bus, Op("I2C_FUNCS", 0, <<>>, -1))
          /\ stderr' = Append(stderr, "Error: Could not get the adapter functionality matrix")
          /\ UNCHANGED funcs
          /\ Exit("check_funcs", 1)
       \/ \E fs \in SUBSET FuncBits :
            LET r == check_funcs(size, daddress, pec, fs)
            IN  /\ bus' = Append(bus, Op("I2C_FUNCS", 0, <<>>, 0))
                /\ funcs' = fs
                /\ stderr' = stderr \o r.err
                /\ IF r.ret # 0
                   THEN Exit("check_funcs", 1)
                   ELSE pc' = "set_slave_addr" /\ Running
    /\ UNCHANGED <<args, size, daddress, daddrlen, pec, file, res, resbuf,
                   stdout, prompt, answer>>

\* Line 261: set_slave_addr binds the chip address to the file.
SetSlaveAddr ==
    /\ pc = "set_slave_addr"
    /\ \/ /\ bus' = Append(bus, Op("I2C_SLAVE", args.address, <<>>, 0))
          /\ pc' = "confirm"
          /\ UNCHANGED stderr
          /\ Running
       \/ /\ bus' = Append(bus, Op("I2C_SLAVE", args.address, <<>>, -1))
          /\ stderr' = Append(stderr, "Error: Could not set address")
          /\ Exit("set_slave_addr", 1)
    /\ UNCHANGED <<args, size, daddress, daddrlen, pec, file, funcs, res,
                   resbuf, stdout, prompt, answer>>

\* Lines 264-265.
Confirm ==
    /\ pc = "confirm"
    /\ IF args.yes
       THEN /\ pc' = "set_pec"
            /\ UNCHANGED <<stderr, prompt, answer>>
            /\ Running
       ELSE \E resp \in Responses :
            LET c == confirm(args.address, size, daddress, pec, resp)
            IN  /\ stderr' = stderr \o c.err
                /\ prompt' = c.prompt
                /\ answer' = IF c.prompt = "" THEN "none" ELSE resp
                /\ IF c.ret
                   THEN pc' = "set_pec" /\ Running
                   ELSE Exit("confirm", 0)
    /\ UNCHANGED <<args, size, daddress, daddrlen, pec, file, funcs, bus,
                   res, resbuf, stdout>>

\* The step main takes once PEC is settled (lines 274, 285-287).
AfterPec ==
    IF args.length # 0 THEN "alloc"
    ELSE IF CallsWriteaddr(args.length, size) THEN "writeaddr"
    ELSE "read"

\* Lines 267-272.
SetPec ==
    /\ pc = "set_pec"
    /\ IF pec
       THEN \/ /\ bus' = Append(bus, Op("I2C_PEC", 1, <<>>, 0))
               /\ pc' = AfterPec
               /\ UNCHANGED <<stderr, file>>
               /\ Running
            \/ /\ bus' = bus \o <<Op("I2C_PEC", 1, <<>>, -1),
                                  Op("close", 0, <<>>, 0)>>
               /\ file' = "closed"
               /\ stderr' = Append(stderr, "Error: Could not set PEC")
               /\ Exit("set_pec", 1)
       ELSE /\ pc' = AfterPec
            /\ UNCHANGED <<bus, stderr, file>>
            /\ Running
    /\ UNCHANGED <<args, size, daddress, daddrlen, pec, funcs, res, resbuf,
                   stdout, prompt, answer>>

\* Lines 275-279: calloc(length, sizeof(int)); a negative length converts
\* to a count whose product with sizeof(int) overflows, so calloc fails.
Alloc ==
    /\ pc = "alloc"
    /\ \/ /\ args.length > 0
          /\ resbuf' = [i \in 1 .. 4 * args.length |-> 0]
          /\ pc' = IF CallsWriteaddr(args.length, size) THEN "writeaddr" ELSE "read"
          /\ UNCHANGED <<bus, file, stderr>>
          /\ Running
       \/ /\ bus' = Append(bus, Op("close", 0, <<>>, 0))
          /\ file' = "closed"
          /\ stderr' = Append(stderr, "Error: Could not allocate buffer memory.")
          /\ UNCHANGED resbuf
          /\ Exit("alloc", 1)
    /\ UNCHANGED <<args, size, daddress, daddrlen, pec, funcs, res, stdout,
                   prompt, answer>>

\* Where main continues after write() returned ret for len bytes
\* (lines 167-169: a mismatch only prints a warning).
AfterWrite_Fatal(ret, len) == IF ret # len THEN "close" ELSE "read"

AfterWrite(ret, len) == "read"

\* Lines 281 / 287, lines 153-170: writeaddr.
WriteAddr ==
    /\ pc = "writeaddr"
    /\ IF daddress >= 0
       THEN LET buf == AddrBytes(daddress, daddrlen)
            IN  \E ret \in -1 .. Len(buf) :
                  /\ bus' = Append(bus, Op("write", Len(buf), buf, ret))
                  /\ stderr' = IF ret # Len(buf)
                               THEN Append(stderr, "Warning - write failed")
                               ELSE stderr
                  /\ pc' = AfterWrite(ret, Len(buf))
       ELSE /\ UNCHANGED <<bus, stderr>>
            /\ pc' = "read"
    /\ Running
    /\ UNCHANGED <<args, size, daddress, daddrlen, pec, file, funcs, res,
                   resbuf, stdout, prompt, answer>>

\* Lines 282, 288, 291, 294: the read.
Read ==
    /\ pc = "read"
    /\ LET prim == Primitive(args.length, size)
       IN  \/ /\ prim = "read"
              /\ \E r \in -1 .. args.length, seed \in DevSeeds :
                   /\ bus' = Append(bus, Op("read", args.length,
                                   [i \in 1 .. r |-> DevByte(seed, i)], r))
                   /\ res' = r
                   /\ resbuf' = [i \in 1 .. Len(resbuf) |->
                                   IF i <= r THEN DevByte(seed, i) ELSE resbuf[i]]
           \/ /\ prim = "read_byte"
              /\ \E v \in ByteResults :
                   /\ bus' = Append(bus, Op("read_byte", 1, <<>>, v))
                   /\ res' = v
              /\ UNCHANGED resbuf
           \/ /\ prim = "read_word_data"
              /\ \E v \in WordResults :
                   /\ bus' = Append(bus, Op("read_word_data", 2, <<daddress % 256>>, v))
                   /\ res' = v
              /\ UNCHANGED resbuf
           \/ /\ prim = "read_byte_data"
              /\ \E v \in ByteResults :
                   /\ bus' = Append(bus, Op("read_byte_data", 1, <<daddress % 256>>, v))
                   /\ res' = v
              /\ UNCHANGED resbuf
    /\ pc' = "close"
    /\ Running
    /\ UNCHANGED <<args, size, daddress, daddrlen, pec, file, funcs, stdout,
                   stderr, prompt, answer>>

\* Line 298.
Close ==
    /\ pc = "close"
    /\ bus' = Append(bus, Op("close", 0, <<>>, 0))
    /\ file' = "closed"
    /\ pc' = "print"
    /\ Running
    /\ UNCHANGED <<args, size, daddress, daddrlen, pec, funcs, res, resbuf,
                   stdout, stderr, prompt, answer>>

\* Lines 300-333.  Whether plain char is signed is the compiler's choice.
PrintResult ==
    /\ pc = "print"
    /\ IF ReadFailed(args.length, res)
       THEN /\ stderr' = Append(stderr, "Error: Read failed")
            /\ UNCHANGED stdout
            /\ Exit("print", 2)
       ELSE /\ IF args.length # 0
               THEN \E signedChar \in BOOLEAN :
                      stdout' = stdout \o RawText(resbuf, args.length, signedChar)
               ELSE stdout' = stdout \o ValueText(size, res)
            /\ UNCHANGED stderr
            /\ Exit("return", 0)
    /\ UNCHANGED <<args, size, daddress, daddrlen, pec, file, funcs, bus,
                   res, resbuf, prompt, answer>>

Next ==
    \/ ParseArgs
    \/ OpenDev
    \/ CheckFuncs
    \/ SetSlaveAddr
    \/ Confirm
    \/ SetPec
    \/ Alloc
    \/ WriteAddr
    \/ Read
    \/ Close
    \/ PrintResult

Spec == Init /\ [][Next]_vars

----------------------------------------------------------------------------
\* Vocabulary of the properties.

Range(f) == {f[i] : i \in DOMAIN f}

\* Positions in `bus` of the operations named.
BusOps(names) == {i \in DOMAIN bus : bus[i].op \in names}

\* Bus traffic: PEC activation, the address write, any read.
TrafficOps == {"I2C_PEC", "write"} \cup ReadOps

\* The I2C_FUNCS query has been made and succeeded.
QueryOk == \E i \in BusOps({"I2C_FUNCS"}) : bus[i].ret = 0

\* The decision table of the TransactionSelector, on the command line.
PlanOf(a) ==
    IF a.length > 0 THEN "RawRead"
    ELSE IF a.nargs = 0 THEN "CurrentByte"
    ELSE IF a.nargs = 1 THEN "ByteData"
    ELSE IF a.mode = "b" THEN "ByteData"
    ELSE IF a.mode = "w" THEN "WordData"
    ELSE IF a.mode = "c" THEN "CurrentByte"
    ELSE "invalid"

\* Capabilities the CapabilityChecker requires of a structured plan.
Required(a) ==
    IF PlanOf(a) = "CurrentByte"
    THEN {"READ_BYTE"} \cup (IF a.nargs >= 1 THEN {"WRITE_BYTE"} ELSE {})
    ELSE IF PlanOf(a) = "ByteData" THEN {"READ_BYTE_DATA"}
    ELSE IF PlanOf(a) = "WordData" THEN {"READ_WORD_DATA"}
    ELSE {}

\* The read primitive and byte count the table prescribes.
ExpectedRead(a) ==
    IF PlanOf(a) = "RawRead" THEN <<"read", a.length>>
    ELSE IF PlanOf(a) = "CurrentByte" THEN <<"read_byte", 1>>
    ELSE IF PlanOf(a) = "ByteData" THEN <<"read_byte_data", 1>>
    ELSE <<"read_word_data", 2>>

\* Byte width of a register address, capped at 2.
CappedWidth(a) == IF a = 0 THEN 0 ELSE IF a < 256 THEN 1 ELSE 2

RECURSIVE DecodeBE(_)
DecodeBE(bytes) ==
    IF bytes = <<>> THEN 0
    ELSE 256 * DecodeBE(SubSeq(bytes, 1, Len(bytes) - 1)) + bytes[Len(bytes)]

----------------------------------------------------------------------------
\* C1: on every exit after the device file was opened, the file has been
\* closed, and close is the last operation issued on it.
C1_HandleReleasedOnEveryExit ==
    (pc = "exit" /\ file # "unopened") =>
        /\ file = "closed"
        /\ bus # <<>>
        /\ bus[Len(bus)].op = "close"
        /\ BusOps({"close"}) = {Len(bus)}

\* C2 as stated: a chip address in 0x50..0x57 with PEC requested never
\* reaches PEC activation, the address write or a read, with or without -y.
C2_EepromPecAlwaysAborts ==
    (args.address \in 80 .. 87 /\ pec) =>
        /\ BusOps(TrafficOps) = {}
        /\ pc \notin {"set_pec", "alloc", "writeaddr", "read", "close", "print"}

\* C2 amended: without -y, a chip address in 0x50..0x57 with PEC requested
\* never gets past the confirmation: no PEC activation, no address write and
\* no read is issued, no prompt is shown, and the refusal exits 0.
C2_EepromPecAbortsWithoutAssumeYes ==
    (args.address \in 80 .. 87 /\ pec /\ ~args.yes) =>
        /\ BusOps(TrafficOps) = {}
        /\ pc \notin {"set_pec", "alloc", "writeaddr", "read", "close", "print"}
        /\ prompt = ""
        /\ exitAt \notin {"set_pec", "alloc", "print", "return"}
        /\ exitAt = "confirm" => exitCode = 0 /\ StopEeprom \in Range(stderr)

C2_Witness ==
    /\ args.address = 80 /\ pec /\ ~args.yes
    /\ exitAt = "confirm" /\ exitCode = 0
    /\ StopEeprom \in Range(stderr)
    /\ BusOps({"I2C_SLAVE"}) # {}

\* C3: with a raw length > 0 and a successful functionality query, the
\* invocation never ends in check_funcs.
C3_RawReadPassesCapabilityCheck ==
    (args.length > 0 /\ QueryOk) => exitAt # "check_funcs"

\* C4: for a structured plan whose functionality query succeeded, a missing
\* required capability ends the invocation in check_funcs with status 1 and
\* the query as the only operation issued (no bind, PEC, write or read); with
\* the required capabilities present check_funcs never ends it, whatever the
\* PEC capability.
C4_MissingCapabilityAbortsBeforeTraffic ==
    (QueryOk /\ PlanOf(args) \in {"CurrentByte", "ByteData", "WordData"}) =>
        IF ~(Required(args) \subseteq funcs)
        THEN /\ pc = "exit" /\ exitAt = "check_funcs" /\ exitCode = 1
             /\ Len(bus) = 1
             /\ BusOps(TrafficOps \cup {"I2C_SLAVE"}) = {}
             /\ stdout = ""
        ELSE exitAt # "check_funcs"

C4_Witness ==
    /\ QueryOk /\ PlanOf(args) = "CurrentByte" /\ args.nargs = 2
    /\ "READ_BYTE" \in funcs /\ "WRITE_BYTE" \notin funcs
    /\ exitAt = "check_funcs" /\ exitCode = 1

\* C5: at most one read primitive is ever issued, it is the one the decision
\* table prescribes for (raw length, register address presence, mode
\* character), with the raw length as its byte count, and an invocation that
\* reaches the close of the file has issued exactly one.
C5_ReadFollowsDecisionTable ==
    LET R == BusOps(ReadOps)
    IN  /\ Cardinality(R) <= 1
        /\ \A i \in R : <<bus[i].op, bus[i].n>> = ExpectedRead(args)
        /\ (pc \in {"close", "print"} \/ exitAt \in {"print", "return"})
              => Cardinality(R) = 1

C5_Witness ==
    /\ args.length = 3 /\ args.mode = "w"
    /\ exitAt = "return"
    /\ \E i \in BusOps({"read"}) : bus[i].n = 3 /\ bus[i].ret = 3
    /\ BusOps({"read_word_data"}) = {}

\* C6: on the raw path one read of the requested length is issued; once it
\* has been, the invocation ends with status 0 and a printed result exactly
\* when the read returned the requested length, and otherwise with status 2,
\* the read-failure diagnostic and nothing on standard output.
C6_RawReadExactLengthOrFail ==
    LET R == BusOps({"read"})
    IN  /\ Cardinality(R) <= 1
        /\ \A i \in R : bus[i].n = args.length /\ args.length > 0
        /\ (R # {} /\ pc = "exit") =>
              \A i \in R :
                 IF bus[i].ret = args.length
                 THEN exitAt = "return" /\ exitCode = 0 /\ stdout # ""
                 ELSE /\ exitAt = "print" /\ exitCode = 2 /\ stdout = ""
                      /\ "Error: Read failed" \in Range(stderr)
        /\ (args.length > 0 /\ exitCode = 0 /\ exitAt = "return") =>
              \E i \in R : bus[i].ret = args.length

C6_Witness ==
    /\ args.length = 3 /\ pc = "exit" /\ exitCode = 2
    /\ \E i \in BusOps({"read"}) : bus[i].ret = 2
    /\ stdout = ""

\* C7: every address write carries exactly CappedWidth(a) bytes of the
\* register address a, most significant first: they decode big-endian to
\* a mod 2^(8 * width).
C7_AddressBytesBigEndianMinimalWidth ==
    \A i \in BusOps({"write"}) :
        LET a == args.daddr
            w == CappedWidth(a)
        IN  /\ a >= 0
            /\ bus[i].n = w
            /\ Len(bus[i].bytes) = w
            /\ \A k \in 1 .. w : bus[i].bytes[k] \in 0 .. 255
            /\ DecodeBE(bus[i].bytes) = a % Pow(256, w)

C7_Witness ==
    /\ args.daddr = 4660
    /\ \E i \in BusOps({"write"}) : bus[i].bytes = <<18, 52>>
    /\ pc = "exit"

\* C8: whenever a register address is supplied and the plan calls for an
\* address write, the write carries 1 or 2 bytes, never 0.
C8_AddressWriteNeverEmpty ==
    \A i \in BusOps({"write"}) : Len(bus[i].bytes) \in {1, 2}

\* C9: without -y and without a refusal, the prompt defaults to decline
\* exactly when the plan is CurrentByte with a register address and PEC, and
\* then any answer but yes exits 0 with no bus traffic; in every other case
\* the prompt defaults to accept.
C9_DeclineDefaultOnlyForCurrentByteWithPec ==
    (~args.yes /\ prompt # "") =>
        IF PlanOf(args) = "CurrentByte" /\ args.nargs >= 1 /\ pec
        THEN /\ prompt = "y/N"
             /\ answer # "y" =>
                   /\ exitAt = "confirm" /\ exitCode = 0
                   /\ BusOps(TrafficOps) = {}
        ELSE /\ prompt = "Y/n"
             /\ answer = "" => exitAt # "confirm"

\* C10: an address write is issued only for a raw read or for CurrentByte
\* with a register address; whatever it returned, exactly one read follows
\* it, and the exit status and the printed text are those the read's outcome
\* alone prescribes.
C10_WriteResultNeverAltersControlFlow ==
    \A w \in BusOps({"write"}) :
        /\ PlanOf(args) = "RawRead"
             \/ (PlanOf(args) = "CurrentByte" /\ args.nargs >= 1)
        /\ pc = "exit" =>
             /\ Cardinality(BusOps(ReadOps)) = 1
             /\ \A r \in BusOps(ReadOps) :
                  LET failed == IF bus[r].op = "read"
                                THEN bus[r].ret # bus[r].n
                                ELSE bus[r].ret < 0
                  IN  /\ r > w
                      /\ exitCode = IF failed THEN 2 ELSE 0
                      /\ stdout \in
                           IF failed THEN {""}
                           ELSE IF bus[r].op = "read"
                           THEN {RawText(bus[r].bytes, bus[r].n, s) : s \in BOOLEAN}
                           ELSE {ValueText(size, bus[r].ret)}

C10_Witness ==
    /\ \E w \in BusOps({"write"}) : bus[w].ret = -1 /\ bus[w].n = 2
    /\ "Warning - write failed" \in Range(stderr)
    /\ exitAt = "return" /\ exitCode = 0

====
